---- MODULE Spec2Model ----
(***************************************************************************)
(* Health Advice Chatbot (src/main.py): the Completion Client              *)
(* (get_deepseek_response), the Speech Trigger (text_to_speech) and the    *)
(* Streamlit script that drives them (sidebar, chat input, quick actions). *)
(*                                                                         *)
(* One action is one script run caused by one user event.  A text is a     *)
(* sequence of tokens; the tokens of the program's fixed messages are cut  *)
(* so that every substring the code searches for is a token of its own.    *)
(* Emoji are written by their code points (U+274C is the cross mark).      *)
(***************************************************************************)
EXTENDS Integers, Sequences, FiniteSets, TLC

VARIABLES
    messages,       \* st.session_state.messages
    api_key,        \* st.session_state.api_key (Spec); the api_key argument (SpecClient)
    voice_enabled,  \* st.session_state.voice_enabled
    event,          \* the user event the last script run handled
    net,            \* what requests.post did in the last call of get_deepseek_response
    ret,            \* outcome of the last call of get_deepseek_response
    crash,          \* exception that ended the last script run, "none" if it ran through
    testOutcome,    \* what the Test Connection button displayed in the last run
    spoken,         \* arguments text_to_speech was called with in the last run
    js,             \* template literal text_to_speech generated in the last run
    tts_text,       \* the text argument of text_to_speech (SpecSpeech)
    submissions,    \* chat submissions since the transcript was last empty
    quickClicks,    \* quick-action clicks since the transcript was last empty
    discarded       \* turns the last run removed from the transcript

vars == <<messages, api_key, voice_enabled, event, net, ret, crash, testOutcome,
          spoken, js, tts_text, submissions, quickClicks, discarded>>

---------------------------------------------------------------------------
(* Bounds of the model *)

MaxTurns == 4
MaxKeyLen == 2
MaxTextLen == 3

---------------------------------------------------------------------------
(* Python values and exceptions *)

PyNone == [t |-> "none"]
PyStr(s) == [t |-> "str", v |-> s]
PyList(items) == [t |-> "list", v |-> items]
PyDict(f) == [t |-> "dict", v |-> f]

Ok(v) == [exc |-> "none", val |-> v]
Raise(e) == [exc |-> e, val |-> PyNone]

\* the classes an exception is an instance of
Bases(e) ==
    CASE e = "ReadTimeout" -> {"ReadTimeout", "Timeout", "RequestException"}
      [] e = "ConnectTimeout" ->
            {"ConnectTimeout", "ConnectionError", "Timeout", "RequestException"}
      [] e = "ConnectionError" -> {"ConnectionError", "RequestException"}
      [] e = "HTTPError" -> {"HTTPError", "RequestException"}
      [] e = "requests.JSONDecodeError" ->
            {"requests.JSONDecodeError", "JSONDecodeError", "RequestException"}
      [] OTHER -> {e}

\* str.strip() and the truth value of a str
SP == " "
Truthy(s) == Len(s) > 0

RECURSIVE LStrip(_)
LStrip(s) == IF s # <<>> /\ Head(s) = SP THEN LStrip(Tail(s)) ELSE s

RECURSIVE RStrip(_)
RStrip(s) == IF s # <<>> /\ s[Len(s)] = SP THEN RStrip(SubSeq(s, 1, Len(s) - 1)) ELSE s

Strip(s) == RStrip(LStrip(s))

\* s.startswith(tok) and "tok in s" for a token the text is cut at
StartsWith(s, tok) == Len(s) > 0 /\ s[1] = tok
Contains(s, tok) == \E i \in 1..Len(s) : s[i] = tok

\* key in x
PyIn(key, x) ==
    CASE x.t = "dict" -> Ok(key \in DOMAIN x.v)
      [] x.t = "list" -> Ok(\E i \in 1..Len(x.v) : x.v[i] = PyStr(<<key>>))
      [] x.t = "str" -> Ok(Contains(x.v, key))
      [] OTHER -> Raise("TypeError")

\* len(x)
PyLen(x) ==
    CASE x.t = "dict" -> Ok(Cardinality(DOMAIN x.v))
      [] x.t = "list" -> Ok(Len(x.v))
      [] x.t = "str" -> Ok(Len(x.v))
      [] OTHER -> Raise("TypeError")

\* x[key] for a str key
GetItemKey(x, key) ==
    CASE x.t = "dict" -> IF key \in DOMAIN x.v THEN Ok(x.v[key]) ELSE Raise("KeyError")
      [] OTHER -> Raise("TypeError")

\* x[0]
GetItem0(x) ==
    CASE x.t = "dict" -> Raise("KeyError")
      [] x.t = "list" -> IF Len(x.v) > 0 THEN Ok(x.v[1]) ELSE Raise("IndexError")
      [] x.t = "str" -> IF Len(x.v) > 0 THEN Ok(PyStr(<<x.v[1]>>)) ELSE Raise("IndexError")
      [] OTHER -> Raise("TypeError")

---------------------------------------------------------------------------
(* The messages get_deepseek_response returns *)

CROSS == "U+274C"
WARN == "U+26A0"
CLOCK == "U+23F1"
GLOBE == "U+1F310"

MsgEmptyKey ==
    <<CROSS, " ", "Error", ": API key is empty. Please enter a valid DeepSeek API key in the sidebar.">>
MsgAuth ==
    <<CROSS, " Authentication ", "Error", ": Invalid API key. Please check your DeepSeek API key and make sure it's correct.">>
MsgRate == <<WARN, " Rate Limit: Too many requests. Please wait a moment and try again.">>
MsgServer ==
    <<CROSS, " Server ", "Error", ": DeepSeek API is experiencing issues. Please try again later.">>
MsgFormat == <<CROSS, " ", "Error", ": Unexpected response format from API.">>
MsgTimeout == <<CLOCK, " Timeout ", "Error", ": Request took too long. Please try again.">>
MsgConn ==
    <<GLOBE, " Connection ", "Error", ": Unable to connect to DeepSeek API. Check your internet connection.">>
\* str(e) is written as the name of the exception
MsgRequest(e) == <<CROSS, " Request ", "Error", ": ", e>>
MsgParse(e) == <<CROSS, " Parse ", "Error", ": Unable to parse API response - ", e>>

---------------------------------------------------------------------------
(* What the network can do to the one requests.post call *)

Contents == {<<"Drink water.">>, <<"Error", " messages on a screen can add to stress.">>}

Choice(c) == PyDict([message |-> PyDict([content |-> c])])

\* response bodies as response.json() parses them
JsonBodies ==
    { PyNone,
      PyList(<<>>),
      PyStr(<<"choices">>),
      PyDict(<<>>),
      PyDict([choices |-> PyNone]),
      PyDict([choices |-> PyList(<<>>)]),
      PyDict([choices |-> PyDict(<<>>)]),
      PyDict([choices |-> PyDict([id |-> PyNone])]),
      PyDict([choices |-> PyStr(<<"none">>)]),
      PyDict([choices |-> PyList(<<PyNone>>)]),
      PyDict([choices |-> PyList(<<PyDict(<<>>)>>)]),
      PyDict([choices |-> PyList(<<PyDict([message |-> PyNone])>>)]),
      PyDict([choices |-> PyList(<<PyDict([message |-> PyDict(<<>>)])>>)]),
      PyDict([choices |-> PyList(<<Choice(PyNone)>>)]) }
    \cup { PyDict([choices |-> PyList(<<Choice(PyStr(c))>>)]) : c \in Contents }

\* a body that is no JSON: response.json() raises requests' JSONDecodeError
\* (requests 2.27 and later) or json.JSONDecodeError (earlier releases)
NoJsonBodies ==
    { [t |-> "nojson", raises |-> e] : e \in {"requests.JSONDecodeError", "JSONDecodeError"} }

Bodies == JsonBodies \cup NoJsonBodies

PassStatuses == {200, 300}
ErrorStatuses == {401, 404, 429, 500, 503}

Nets ==
    { [kind |-> "raise", exc |-> e] : e \in {"ReadTimeout", "ConnectTimeout", "ConnectionError"} }
    \cup { [kind |-> "response", status |-> s, body |-> b] : s \in PassStatuses, b \in Bodies }
    \cup { [kind |-> "response", status |-> s, body |-> PyDict(<<>>)] : s \in ErrorStatuses }

NoNet == [kind |-> "none"]

\* response.raise_for_status()
RaiseForStatus(status) ==
    IF 400 <= status /\ status < 600 THEN Raise("HTTPError") ELSE Ok(PyNone)

\* response.json()
ResponseJson(body) == IF body.t = "nojson" THEN Raise(body.raises) ELSE Ok(body)

---------------------------------------------------------------------------
(* get_deepseek_response *)

\* result['choices'][0]['message']['content']
FirstContent(result) ==
    LET choices == GetItemKey(result, "choices") IN
    IF choices.exc # "none" THEN choices ELSE
    LET first == GetItem0(choices.val) IN
    IF first.exc # "none" THEN first ELSE
    LET message == GetItemKey(first.val, "message") IN
    IF message.exc # "none" THEN message ELSE
    GetItemKey(message.val, "content")

\* if 'choices' in result and len(result['choices']) > 0: ... else: ...
Extract(result) ==
    LET has == PyIn("choices", result) IN
    IF has.exc # "none" THEN has ELSE
    IF ~has.val THEN Ok(PyStr(MsgFormat)) ELSE
    LET choices == GetItemKey(result, "choices") IN
    IF choices.exc # "none" THEN choices ELSE
    LET n == PyLen(choices.val) IN
    IF n.exc # "none" THEN n ELSE
    IF n.val > 0 THEN FirstContent(result) ELSE Ok(PyStr(MsgFormat))

\* the body of the try statement
TryBlock(n) ==
    IF n.kind = "raise" THEN Raise(n.exc)
    ELSE IF n.status = 401 THEN Ok(PyStr(MsgAuth))
    ELSE IF n.status = 429 THEN Ok(PyStr(MsgRate))
    ELSE IF n.status = 500 THEN Ok(PyStr(MsgServer))
    ELSE IF RaiseForStatus(n.status).exc # "none" THEN RaiseForStatus(n.status)
    ELSE LET result == ResponseJson(n.body) IN
         IF result.exc # "none" THEN result ELSE Extract(result.val)

\* the except clauses, in their order
ExceptClauses(r) ==
    IF r.exc = "none" THEN r
    ELSE IF "Timeout" \in Bases(r.exc) THEN Ok(PyStr(MsgTimeout))
    ELSE IF "ConnectionError" \in Bases(r.exc) THEN Ok(PyStr(MsgConn))
    ELSE IF "RequestException" \in Bases(r.exc) THEN Ok(PyStr(MsgRequest(r.exc)))
    ELSE IF Bases(r.exc) \cap {"KeyError", "IndexError", "JSONDecodeError"} # {}
         THEN Ok(PyStr(MsgParse(r.exc)))
    ELSE r

\* the check without its strip(): only the empty string is refused
EmptyKeyCheck_NoStrip(key) == ~Truthy(key)

\* if not api_key or api_key.strip() == ""
EmptyKeyCheck(key) == ~Truthy(key) \/ Strip(key) = <<>>

\* [exc, val]: the value returned or the exception raised; calls: requests.post calls
get_deepseek_response(msgs, key, n) ==
    IF EmptyKeyCheck(key)
    THEN [exc |-> "none", val |-> PyStr(MsgEmptyKey), calls |-> 0]
    ELSE LET r == ExceptClauses(TryBlock(n)) IN
         [exc |-> r.exc, val |-> r.val, calls |-> 1]

NoRet == [exc |-> "none", val |-> PyNone, calls |-> 0]

---------------------------------------------------------------------------
(* The Completion Client alone: one call for every credential and every    *)
(* outcome of the network call                                             *)

RECURSIVE SeqsUpTo(_, _)
SeqsUpTo(S, n) ==
    IF n = 0 THEN {<<>>}
    ELSE LET shorter == SeqsUpTo(S, n - 1) IN
         shorter \cup { Append(s, x) : s \in shorter, x \in S }

Credentials == SeqsUpTo({SP, "sk"}, MaxKeyLen)

TestMsg ==
    <<[role |-> "user", content |-> PyStr(<<"Say 'API connection successful' in 5 words or less">>)]>>

InitClient ==
    /\ messages = <<>>
    /\ api_key \in Credentials
    /\ voice_enabled = FALSE
    /\ event = "init"
    /\ net = NoNet
    /\ ret = NoRet
    /\ crash = "none"
    /\ testOutcome = "none"
    /\ spoken = <<>>
    /\ js = <<>>
    /\ tts_text = <<>>
    /\ submissions = 0
    /\ quickClicks = 0
    /\ discarded = 0

ClientCall ==
    /\ event = "init"
    /\ \E n \in Nets :
        /\ net' = n
        /\ ret' = get_deepseek_response(TestMsg, api_key, n)
    /\ event' = "call"
    /\ UNCHANGED <<messages, api_key, voice_enabled, crash, testOutcome, spoken, js,
                   tts_text, submissions, quickClicks, discarded>>

NextClient == ClientCall

SpecClient == InitClient /\ [][NextClient]_vars

---------------------------------------------------------------------------
(* text_to_speech, and how the browser reads the script it generates *)

DQ == "DQUOTE"
SQ == "SQUOTE"
BT == "BACKTICK"
NL == "NEWLINE"
BS == "BACKSLASH"
DOLLAR == "DOLLAR"
LBRACE == "LBRACE"

Chars == {DQ, SQ, BT, NL, BS, DOLLAR, LBRACE, "a"}

\* s.replace(old, new), old one character, new a string
RECURSIVE Replace(_, _, _)
Replace(s, old, new) ==
    IF s = <<>> THEN <<>>
    ELSE (IF Head(s) = old THEN new ELSE <<Head(s)>>) \o Replace(Tail(s), old, new)

\* clean_text = text.replace('"', '\\"').replace('\n', ' ')
clean_text(text) == Replace(Replace(text, DQ, <<BS, DQ>>), NL, <<SP>>)

\* the characters js_code holds between the backticks of  const text = `...`;
text_to_speech(text) == clean_text(text)

\* The template literal opened by the first backtick of js_code, read character by
\* character: "ok" with the string it denotes when the literal ends at the closing
\* backtick of js_code, else how the embedded text broke it.
RECURSIVE ScanTemplate(_, _, _)
ScanTemplate(body, i, cooked) ==
    IF i > Len(body) THEN [status |-> "ok", cooked |-> cooked]
    ELSE IF body[i] = BT THEN [status |-> "closed early", cooked |-> cooked]
    ELSE IF body[i] = BS THEN
        IF i = Len(body) THEN [status |-> "closing backtick escaped", cooked |-> cooked]
        ELSE ScanTemplate(body, i + 2, Append(cooked, body[i + 1]))
    ELSE IF body[i] = DOLLAR /\ i < Len(body) /\ body[i + 1] = LBRACE
        THEN [status |-> "substitution", cooked |-> cooked]
    ELSE ScanTemplate(body, i + 1, Append(cooked, body[i]))

TemplateLiteral(body) == ScanTemplate(body, 1, <<>>)

InitSpeech ==
    /\ messages = <<>>
    /\ api_key = <<>>
    /\ voice_enabled = FALSE
    /\ event = "init"
    /\ net = NoNet
    /\ ret = NoRet
    /\ crash = "none"
    /\ testOutcome = "none"
    /\ spoken = <<>>
    /\ js = <<>>
    /\ tts_text \in SeqsUpTo(Chars, MaxTextLen)
    /\ submissions = 0
    /\ quickClicks = 0
    /\ discarded = 0

Speak ==
    /\ event = "init"
    /\ spoken' = <<tts_text>>
    /\ js' = <<text_to_speech(tts_text)>>
    /\ event' = "speak"
    /\ UNCHANGED <<messages, api_key, voice_enabled, net, ret, crash, testOutcome,
                   tts_text, submissions, quickClicks, discarded>>

NextSpeech == Speak

SpecSpeech == InitSpeech /\ [][NextSpeech]_vars

---------------------------------------------------------------------------
(* The script: one run per user event *)

UserInputs == {<<"How much water should I drink daily?">>}

\* what the user types into the API key field
KeyInputs == {<<>>, <<SP>>, <<"sk">>, <<SP, "sk", SP>>}

\* one outcome of the network call for every path through get_deepseek_response
SessionNets ==
    { [kind |-> "raise", exc |-> "ReadTimeout"],
      [kind |-> "raise", exc |-> "ConnectionError"],
      [kind |-> "response", status |-> 401, body |-> PyDict(<<>>)],
      [kind |-> "response", status |-> 404, body |-> PyDict(<<>>)],
      [kind |-> "response", status |-> 429, body |-> PyDict(<<>>)],
      [kind |-> "response", status |-> 500, body |-> PyDict(<<>>)],
      [kind |-> "response", status |-> 200, body |-> [t |-> "nojson", raises |-> "JSONDecodeError"]],
      [kind |-> "response", status |-> 200, body |-> PyDict(<<>>)],
      [kind |-> "response", status |-> 200,
       body |-> PyDict([choices |-> PyList(<<PyDict([message |-> PyNone])>>)])],
      [kind |-> "response", status |-> 200,
       body |-> PyDict([choices |-> PyList(<<Choice(PyNone)>>)])],
      [kind |-> "response", status |-> 200,
       body |-> PyDict([choices |-> PyList(<<Choice(PyStr(<<"Drink water.">>))>>)])] }

QuickTexts ==
    << <<"Give me tips for better sleep">>,
       <<"How to eat healthier?">>,
       <<"What exercises should beginners do?">>,
       <<"How to manage stress?">> >>

Turn(role, content) == [role |-> role, content |-> content]

Init ==
    /\ messages = <<>>
    /\ api_key = <<>>
    /\ voice_enabled = FALSE
    /\ event = "init"
    /\ net = NoNet
    /\ ret = NoRet
    /\ crash = "none"
    /\ testOutcome = "none"
    /\ spoken = <<>>
    /\ js = <<>>
    /\ tts_text = <<>>
    /\ submissions = 0
    /\ quickClicks = 0
    /\ discarded = 0

\* if api_key_input: st.session_state.api_key = api_key_input.strip()
\* Every run executes it with the value the field holds; the result changes only
\* in the run that follows an edit of the field.
SaveApiKey(key, api_key_input) ==
    IF Truthy(api_key_input) THEN Strip(api_key_input) ELSE key

EnterApiKey ==
    /\ \E api_key_input \in KeyInputs : api_key' = SaveApiKey(api_key, api_key_input)
    /\ event' = "key"
    /\ discarded' = 0
    /\ net' = NoNet /\ ret' = NoRet /\ crash' = "none" /\ testOutcome' = "none"
    /\ spoken' = <<>> /\ js' = <<>>
    /\ UNCHANGED <<messages, voice_enabled, tts_text, submissions, quickClicks>>

\* st.session_state.voice_enabled = st.checkbox(...)
ToggleVoice ==
    /\ voice_enabled' = ~voice_enabled
    /\ event' = "voice"
    /\ discarded' = 0
    /\ net' = NoNet /\ ret' = NoRet /\ crash' = "none" /\ testOutcome' = "none"
    /\ spoken' = <<>> /\ js' = <<>>
    /\ UNCHANGED <<messages, api_key, tts_text, submissions, quickClicks>>

\* the Clear Chat History button
\* a clear that removes the oldest turn only
ClearedMessages_DropsFirst(msgs) == IF msgs = <<>> THEN <<>> ELSE Tail(msgs)

ClearedMessages(msgs) == <<>>

ClearChat ==
    /\ messages' = ClearedMessages(messages)
    /\ submissions' = 0
    /\ quickClicks' = 0
    /\ event' = "clear"
    /\ discarded' = Len(messages)
    /\ net' = NoNet /\ ret' = NoRet /\ crash' = "none" /\ testOutcome' = "none"
    /\ spoken' = <<>> /\ js' = <<>>
    /\ UNCHANGED <<api_key, voice_enabled, tts_text>>

\* the Test Connection button: what it displays, and the exception that ends the run
TestConnectionResult(key, n) ==
    IF ~Truthy(key)
    THEN [ret |-> NoRet, net |-> NoNet, crash |-> "none", shown |-> "enter key first"]
    ELSE LET r == get_deepseek_response(TestMsg, key, n) IN
         IF r.exc # "none" THEN [ret |-> r, net |-> n, crash |-> r.exc, shown |-> "none"]
         ELSE IF r.val.t # "str"
              THEN [ret |-> r, net |-> n, crash |-> "TypeError", shown |-> "none"]
         ELSE IF Contains(r.val.v, CROSS) \/ Contains(r.val.v, "Error")
              THEN [ret |-> r, net |-> n, crash |-> "none", shown |-> "failed"]
         ELSE [ret |-> r, net |-> n, crash |-> "none", shown |-> "ok"]

TestConnection ==
    /\ \E n \in SessionNets :
        LET t == TestConnectionResult(api_key, n) IN
        /\ ret' = t.ret
        /\ net' = t.net
        /\ crash' = t.crash
        /\ testOutcome' = t.shown
    /\ event' = "test"
    /\ discarded' = 0
    /\ spoken' = <<>> /\ js' = <<>>
    /\ UNCHANGED <<messages, api_key, voice_enabled, tts_text, submissions, quickClicks>>

\* the speak button next to an assistant message
SpeakButton ==
    /\ \E idx \in 1..Len(messages) :
        /\ messages[idx].role # "user"
        /\ IF messages[idx].content.t = "str"
           THEN /\ spoken' = <<messages[idx].content.v>>
                /\ js' = <<text_to_speech(messages[idx].content.v)>>
                /\ crash' = "none"
           ELSE /\ spoken' = <<>>
                /\ js' = <<>>
                /\ crash' = "AttributeError"
    /\ event' = "speak"
    /\ discarded' = 0
    /\ net' = NoNet /\ ret' = NoRet /\ testOutcome' = "none"
    /\ UNCHANGED <<messages, api_key, voice_enabled, tts_text, submissions, quickClicks>>

\* if st.session_state.voice_enabled and not bot_response.startswith(CROSS)
AutoSpeak(voice, bot_response) ==
    IF ~voice THEN [crash |-> "none", spoken |-> <<>>]
    ELSE IF bot_response.t # "str" THEN [crash |-> "AttributeError", spoken |-> <<>>]
    ELSE IF ~StartsWith(bot_response.v, CROSS)
         THEN [crash |-> "none", spoken |-> <<bot_response.v>>]
    ELSE [crash |-> "none", spoken |-> <<>>]

\* if user_input: ... for a submitted text
ChatInput(msgs, key, voice, user_input, n) ==
    LET withUser == Append(msgs, Turn("user", PyStr(user_input)))
        r == get_deepseek_response(withUser, key, n)
    IN  IF r.exc # "none"
        THEN [messages |-> withUser, ret |-> r, crash |-> r.exc, spoken |-> <<>>]
        ELSE LET sp == AutoSpeak(voice, r.val) IN
             [messages |-> Append(withUser, Turn("assistant", r.val)),
              ret |-> r, crash |-> sp.crash, spoken |-> sp.spoken]

ChatSubmit ==
    /\ Truthy(api_key)
    /\ Len(messages) + 2 <= MaxTurns
    /\ \E user_input \in UserInputs, n \in SessionNets :
        LET h == ChatInput(messages, api_key, voice_enabled, user_input, n) IN
        /\ messages' = h.messages
        /\ ret' = h.ret
        /\ net' = n
        /\ crash' = h.crash
        /\ spoken' = h.spoken
        /\ js' = [i \in 1..Len(h.spoken) |-> text_to_speech(h.spoken[i])]
    /\ submissions' = submissions + 1
    /\ event' = "chat"
    /\ discarded' = 0
    /\ testOutcome' = "none"
    /\ UNCHANGED <<api_key, voice_enabled, tts_text, quickClicks>>

\* the four quick-action buttons
QuickButton(msgs, b) == Append(msgs, Turn("user", PyStr(QuickTexts[b])))

QuickAction ==
    /\ Len(messages) + 1 <= MaxTurns
    /\ \E b \in 1..Len(QuickTexts) : messages' = QuickButton(messages, b)
    /\ quickClicks' = quickClicks + 1
    /\ event' = "quick"
    /\ discarded' = 0
    /\ net' = NoNet /\ ret' = NoRet /\ crash' = "none" /\ testOutcome' = "none"
    /\ spoken' = <<>> /\ js' = <<>>
    /\ UNCHANGED <<api_key, voice_enabled, tts_text, submissions>>

Next ==
    \/ EnterApiKey
    \/ ToggleVoice
    \/ ClearChat
    \/ TestConnection
    \/ SpeakButton
    \/ ChatSubmit
    \/ QuickAction

Spec == Init /\ [][Next]_vars

---------------------------------------------------------------------------
(* Properties *)

\* the value get_deepseek_response returned is one of its error messages
ErrorResult(r) ==
    /\ r.exc = "none"
    /\ r.val.t = "str"
    /\ \/ r.val.v \in {MsgEmptyKey, MsgAuth, MsgRate, MsgServer, MsgFormat, MsgTimeout, MsgConn}
       \/ \E e \in {"HTTPError", "requests.JSONDecodeError", "JSONDecodeError", "KeyError",
                    "IndexError"} : r.val.v \in {MsgRequest(e), MsgParse(e)}

\* C1: starting from an empty transcript, after N chat submissions and no quick
\* action or reset the transcript holds exactly 2N turns.
C1_TwoTurnsPerSubmission == quickClicks = 0 => Len(messages) = 2 * submissions

\* C2: with voice enabled, a chat submission whose reply is a classified error
\* does not invoke text_to_speech.
C2_NoErrorSpoken ==
    (event = "chat" /\ voice_enabled /\ ErrorResult(ret)) => spoken = <<>>

\* C3: get_deepseek_response returns a string for every credential and every
\* outcome of the network call; it never raises.
C3_AlwaysReturnsString == event = "call" => (ret.exc = "none" /\ ret.val.t = "str")

\* the response body has the shape {choices: [...]}
HasChoicesList(b) ==
    /\ b.t = "dict"
    /\ "choices" \in DOMAIN b.v
    /\ b.v.choices.t = "list"

\* ... and its first choice holds message.content, a string
HasFirstContent(b) ==
    /\ HasChoicesList(b)
    /\ Len(b.v.choices.v) > 0
    /\ b.v.choices.v[1].t = "dict"
    /\ "message" \in DOMAIN b.v.choices.v[1].v
    /\ b.v.choices.v[1].v.message.t = "dict"
    /\ "content" \in DOMAIN b.v.choices.v[1].v.message.v
    /\ b.v.choices.v[1].v.message.v.content.t = "str"

IsParseError(v) == v.t = "str" /\ Len(v.v) = 5 /\ v.v[1] = CROSS /\ v.v[2] = " Parse "
IsHttpError(v) == v.t = "str" /\ Len(v.v) = 5 /\ v.v[1] = CROSS /\ v.v[2] = " Request "

\* The result the classification of section 4.1 gives for a network outcome.  A
\* parsed body without a non-empty list of choices may count as "zero choices" or
\* as "lacks the expected fields": either message is accepted for it.
ClassifiedAs(n, v) ==
    IF n.kind = "raise" THEN
        CASE n.exc = "ConnectionError" -> v = PyStr(MsgConn)
          [] n.exc = "ReadTimeout" -> v = PyStr(MsgTimeout)
          [] OTHER -> v \in {PyStr(MsgConn), PyStr(MsgTimeout)}
    ELSE IF n.status = 401 THEN v = PyStr(MsgAuth)
    ELSE IF n.status = 429 THEN v = PyStr(MsgRate)
    ELSE IF n.status = 500 THEN v = PyStr(MsgServer)
    ELSE IF ~(200 <= n.status /\ n.status < 300) THEN IsHttpError(v)
    ELSE IF n.body.t = "nojson" THEN IsParseError(v)
    ELSE IF HasFirstContent(n.body) THEN v = n.body.v.choices.v[1].v.message.v.content
    ELSE IF HasChoicesList(n.body) /\ Len(n.body.v.choices.v) > 0 THEN IsParseError(v)
    ELSE v = PyStr(MsgFormat) \/ IsParseError(v)

\* C4: with a non-empty credential the result is fixed by the outcome of the
\* network call: 401, 429, 500, other non-2xx, connection failure, timeout,
\* unparsable or incomplete body, zero choices, else the first choice's content.
C4_Classification ==
    (event = "call" /\ Strip(api_key) # <<>>)
        => (ret.exc = "none" /\ ClassifiedAs(net, ret.val))

\* C5: an empty or whitespace-only credential gives the configuration-error
\* message and no network call; any other credential gives exactly one call.
C5_NetworkCalls ==
    event = "call" =>
        IF Strip(api_key) = <<>>
        THEN ret.exc = "none" /\ ret.val = PyStr(MsgEmptyKey) /\ ret.calls = 0
        ELSE ret.calls = 1

C5_Witness == event = "call" /\ api_key = <<SP, SP>> /\ ret.calls = 0 /\ net.kind = "response"

\* C6: after any action that appended a user turn (chat submission or quick
\* action) that turn is followed by its assistant turn, after one client call.
C6_UserTurnPaired ==
    event \in {"chat", "quick"} =>
        /\ ret.calls = 1
        /\ Len(messages) >= 2
        /\ messages[Len(messages) - 1].role = "user"
        /\ messages[Len(messages)].role = "assistant"

\* C7: no run appends a turn while the stored credential is empty.
C7_NoInputWithoutCredential == event \in {"chat", "quick"} => Truthy(api_key)

\* C8: Clear Chat History leaves an empty transcript in one step, from every
\* state, and leaves the credential and the voice preference as they were.
C8_ResetClears ==
    [][event' = "clear" =>
        (Len(messages') = 0 /\ api_key' = api_key /\ voice_enabled' = voice_enabled)]_vars

C8_Witness ==
    /\ event = "clear"
    /\ discarded = MaxTurns
    /\ messages = <<>>
    /\ Truthy(api_key)
    /\ voice_enabled

\* C9: the text text_to_speech embeds cannot end or escape the string literal
\* holding it; the utterance is the input with its newlines replaced.
C9_SpeechTextNeutralized ==
    (event = "speak" /\ js # <<>>) =>
        /\ TemplateLiteral(js[1]).status = "ok"
        /\ TemplateLiteral(js[1]).cooked = Replace(spoken[1], NL, <<SP>>)

\* C10: Test Connection reports a failure for every classified error result and
\* success only for a completion.
C10_TestReportsErrors ==
    /\ (event = "test" /\ ErrorResult(ret)) => testOutcome = "failed"
    /\ (event = "test" /\ testOutcome = "ok") => (ret.calls = 1 /\ ~ErrorResult(ret))

====
